---------------------------- MODULE Spec2Model ----------------------------
(***************************************************************************)
(* A model of the s3 command-line tool (src/src/main.rs):                  *)
(*   - Location::from, the regex-based parser of source/destination        *)
(*     strings (SpecParse),                                                *)
(*   - main, the cp / rm dispatch with count_bytes_recursive, s3_client    *)
(*     and the single call into the upload / delete collaborator (Spec),   *)
(*   - the progress callback handed to s3_upload_files, which adds to a    *)
(*     progress bar behind a tokio Mutex (SpecProgress).                   *)
(* Strings are sequences of one-character strings.                         *)
(***************************************************************************)
EXTENDS Integers, Sequences, FiniteSets, TLC

VARIABLES
    \* Location::from
    val,        \* the &str handed to Location::from
    loc,        \* the Location it returned
    ppc,        \* "init" before the call, "done" after it
    \* main
    argv,       \* the command line: subcommand, positional arguments, --region
    fs,         \* the local tree: what the walk and metadata() do per file
    pc,         \* main's position
    src, dest,  \* cp's parsed Locations
    prefix,     \* rm's parsed Location
    total_bytes,\* count_bytes_recursive's result
    events,     \* the I/O main has done, in order
    handed,     \* the (path, key) items handed to s3_upload_files
    result,     \* what the collaborator returned: "none", "Ok", "Err"
    exit,       \* "running", "ok", or the panic that ended the process
    \* progress callback
    nrep,       \* N: the number of progress reports
    kbytes,     \* k: report.bytes of each
    cpc,        \* each callback's position
    holder,     \* the callback that holds the Mutex guard, 0 when free
    current,    \* ProgressBar.current
    reg         \* each callback's copy of current inside `current += i`

parseVars == <<val, loc, ppc>>
mainVars  == <<argv, fs, pc, src, dest, prefix, total_bytes, events, handed,
               result, exit>>
progVars  == <<nrep, kbytes, cpc, holder, current, reg>>
vars      == <<val, loc, ppc, argv, fs, pc, src, dest, prefix, total_bytes,
               events, handed, result, exit, nrep, kbytes, cpc, holder, current,
               reg>>

(***************************************************************************)
(* Bounds.                                                                 *)
(***************************************************************************)
MaxLen == 8
NumReports == 3
MaxBytes == 2

(***************************************************************************)
(* Characters and strings.                                                 *)
(***************************************************************************)
NL == "\n"
Digits == {"0", "1", "2", "3", "4", "5", "6", "7", "8", "9"}
Alphabet == {"s", "3", ":", "/", NL}
Inputs == UNION {[1..n -> Alphabet] : n \in 0..MaxLen}

Min(S) == CHOOSE m \in S : \A n \in S : m <= n

\* The end (exclusive) of the longest run from i of characters not in excl:
\* a greedy negated class [^...]* , and .* with excl = {NL}.
RECURSIVE SkipNot(_, _, _)
SkipNot(s, i, excl) ==
    IF i <= Len(s) /\ s[i] \notin excl THEN SkipNot(s, i + 1, excl) ELSE i

\* The end (exclusive) of the longest run from i of characters in incl:
\* a greedy class [...]* .
RECURSIVE SkipIn(_, _, _)
SkipIn(s, i, incl) ==
    IF i <= Len(s) /\ s[i] \in incl THEN SkipIn(s, i + 1, incl) ELSE i

(***************************************************************************)
(* Location and Option: None is <<>>, Some(x) is <<x>>.  A Location is a   *)
(* record with every field of both variants; tag says which variant it is  *)
(* and the other variant's fields are empty.                               *)
(***************************************************************************)
None == <<>>
Some(x) == <<x>>

LocS3(host, bucket, key) ==
    [tag |-> "S3", host |-> host, bucket |-> bucket, key |-> key, path |-> <<>>]
LocPath(p) ==
    [tag |-> "Path", host |-> None, bucket |-> <<>>, key |-> <<>>, path |-> p]
NoLoc == [tag |-> "none", host |-> None, bucket |-> <<>>, key |-> <<>>, path |-> <<>>]

(***************************************************************************)
(* The two regexes.  A match attempt at position i yields the captures;    *)
(* Regex::is_match and captures_iter().next() search unanchored and take   *)
(* the leftmost position at which an attempt succeeds.                     *)
(***************************************************************************)
NoMatch == [ok |-> FALSE, host |-> <<>>, bucket |-> <<>>, key |-> None]

S3Scheme == <<"s", "3", ":", "/", "/">>

\* (?P<bucket>[^/]*)(/(?P<key>.*))? from position b.  [^/]* is greedy and
\* stops only at '/' or the end, so the optional group takes part exactly
\* when a '/' follows; . does not match a line feed.
BucketKey(s, b, host) ==
    LET e == SkipNot(s, b, {"/"})
    IN  IF e <= Len(s)
        THEN [ok |-> TRUE, host |-> host, bucket |-> SubSeq(s, b, e - 1),
              key |-> Some(SubSeq(s, e + 1, SkipNot(s, e + 1, {NL}) - 1))]
        ELSE [ok |-> TRUE, host |-> host, bucket |-> SubSeq(s, b, e - 1),
              key |-> None]

\* s3://(?P<bucket>[^/]*)(/(?P<key>.*))? attempted at i.
re_s3_at(s, i) ==
    IF i + 4 <= Len(s) /\ SubSeq(s, i, i + 4) = S3Scheme
    THEN BucketKey(s, i + 5, <<>>)
    ELSE NoMatch

\* (?P<host>[^/:]*:[0-9]*)/(?P<bucket>[^/]*)(/(?P<key>.*))? attempted at i.
\* Backtracking into [^/:]* or [0-9]* cannot help: a shorter run is followed
\* by a character of the class, never by the ':' or '/' that must follow.
re_endpoint_at(s, i) ==
    LET c == SkipNot(s, i, {"/", ":"})
        d == SkipIn(s, c + 1, Digits)
    IN  IF c <= Len(s) /\ s[c] = ":" /\ d <= Len(s) /\ s[d] = "/"
        THEN BucketKey(s, d + 1, SubSeq(s, i, d - 1))
        ELSE NoMatch

\* One match attempt of the regex named re at position i.
MatchAt(re, s, i) ==
    IF re = "re_s3" THEN re_s3_at(s, i) ELSE re_endpoint_at(s, i)

\* captures_iter(val).next(): the leftmost match of the regex in s.
Captures(re, s) ==
    LET I == {i \in 1..(Len(s) + 1) : MatchAt(re, s, i).ok}
    IN  IF I = {} THEN NoMatch ELSE MatchAt(re, s, Min(I))

\* Regex::is_match: whether the regex matches anywhere in s.
is_match(re, s) == Captures(re, s).ok

\* cap.name("key").map(|x| x.as_str()).unwrap_or("")
KeyOrEmpty(cap) == IF cap.key = None THEN <<>> ELSE cap.key[1]

\* impl From<&str> for Location
LocationFrom(s) ==
    IF is_match("re_s3", s)
    THEN LET cap == Captures("re_s3", s)
         IN  LocS3(None, cap.bucket, KeyOrEmpty(cap))
    ELSE IF is_match("re_endpoint", s)
    THEN LET cap == Captures("re_endpoint", s)
         IN  LocS3(Some(cap.host), cap.bucket, KeyOrEmpty(cap))
    ELSE LocPath(s)

(***************************************************************************)
(* SpecParse: Location::from applied to every string over Alphabet of at   *)
(* most MaxLen characters.                                                 *)
(***************************************************************************)
ParseIdle == val = <<>> /\ loc = NoLoc /\ ppc = "idle"
MainIdle ==
    /\ argv = [cmd |-> "idle", a1 |-> <<>>, a2 |-> <<>>, region |-> "idle"]
    /\ fs = <<>> /\ pc = "idle" /\ src = NoLoc /\ dest = NoLoc /\ prefix = NoLoc
    /\ total_bytes = 0 /\ events = <<>> /\ handed = {} /\ result = "none"
    /\ exit = "idle"
ProgIdle ==
    /\ nrep = 0 /\ kbytes = 0 /\ cpc = <<>> /\ holder = 0 /\ current = 0
    /\ reg = <<>>

InitParse ==
    /\ val \in Inputs
    /\ loc = NoLoc
    /\ ppc = "init"
    /\ MainIdle /\ ProgIdle

From ==
    /\ ppc = "init"
    /\ loc' = LocationFrom(val)
    /\ ppc' = "done"
    /\ UNCHANGED <<val, mainVars, progVars>>

NextParse == From
SpecParse == InitParse /\ [][NextParse]_vars

(***************************************************************************)
(* The grammar of section 4.1, read on the whole string.                   *)
(***************************************************************************)
Chars(s) == {s[i] : i \in 1..Len(s)}

\* val is "s3://" B or "s3://" B "/" K, B the n characters after the scheme.
S3UriWithBucket(s, n) ==
    /\ Len(s) >= 5 + n
    /\ SubSeq(s, 1, 5) = S3Scheme
    /\ "/" \notin Chars(SubSeq(s, 6, 5 + n))
    /\ (Len(s) > 5 + n => s[6 + n] = "/")

\* val is H ":" P "/" B or H ":" P "/" B "/" K, with H the first h characters
\* (no '/', no ':'), P the p digits after the ':' and B the n characters
\* after the '/'.
HostFormWith(s, h, p, n) ==
    /\ Len(s) >= h + p + 2 + n
    /\ Chars(SubSeq(s, 1, h)) \cap {"/", ":"} = {}
    /\ s[h + 1] = ":"
    /\ Chars(SubSeq(s, h + 2, h + 1 + p)) \subseteq Digits
    /\ s[h + p + 2] = "/"
    /\ "/" \notin Chars(SubSeq(s, h + p + 3, h + p + 2 + n))
    /\ (Len(s) > h + p + 2 + n => s[h + p + 3 + n] = "/")

\* The Location the grammar gives for bucket s[b..e] and the key after it.
Expected(s, host, b, e) ==
    LocS3(host, SubSeq(s, b, e),
          IF Len(s) > e THEN SubSeq(s, e + 2, Len(s)) ELSE <<>>)

\* C1: Location::from("s3://B/K") is S3{host: None, bucket: B, key: K} for
\* every B without '/' and every K, and Location::from("s3://B") is
\* S3{host: None, bucket: B, key: ""}.
C1_S3UriParsed ==
    ppc = "done" =>
        \A n \in 0..Len(val) :
            S3UriWithBucket(val, n) => loc = Expected(val, None, 6, 5 + n)

\* C2: Location::from("H:P/B/K") is S3{host: Some("H:P"), bucket: B, key: K}
\* for every H without '/' and ':', every numeric (non-empty) port P, every
\* B without '/' and every K; "H:P/B" and "H:P/B/" give key "".
C2_HostFormParsed ==
    ppc = "done" =>
        \A h \in 0..Len(val), p \in 1..Len(val), n \in 0..Len(val) :
            HostFormWith(val, h, p, n) =>
                loc = Expected(val, Some(SubSeq(val, 1, h + p + 1)),
                               h + p + 3, h + p + 2 + n)

\* Whether the whole string is of one of the two remote forms.  The port may
\* here be empty: the reading most favourable to the claim.
WholeS3Form(s) == \E n \in 0..Len(s) : S3UriWithBucket(s, n)
WholeHostForm(s) ==
    \E h \in 0..Len(s), p \in 0..Len(s), n \in 0..Len(s) : HostFormWith(s, h, p, n)

\* C3: Location::from never fails, and every string that as a whole is of
\* neither remote form parses to Path(p) with p the input verbatim.
C3_FallbackToPath ==
    ppc = "done" =>
        /\ loc.tag \in {"S3", "Path"}
        /\ (~WholeS3Form(val) /\ ~WholeHostForm(val) => loc = LocPath(val))


(***************************************************************************)
(* main.  Spec runs one invocation of the tool: clap has parsed the        *)
(* command line (argv), and main dispatches on the subcommand.             *)
(***************************************************************************)
\* The positional arguments tried: a local directory, s3://b, s3://b/p,
\* s3://b/p/ and h:9/b/p.
ArgLocal == <<"d">>
ArgBucket == <<"s", "3", ":", "/", "/", "b">>
ArgKey == <<"s", "3", ":", "/", "/", "b", "/", "p">>
ArgKeySlash == <<"s", "3", ":", "/", "/", "b", "/", "p", "/">>
ArgHost == <<"h", ":", "9", "/", "b", "/", "p">>
Args == {ArgLocal, ArgBucket, ArgKey, ArgKeySlash, ArgHost}

\* --region, after unwrap_or("eu-west-1").
Regions == {"eu-west-1", "us-east-1", "other"}

\* The tree under the source directory: a and s/b, relative to the root.
\* Per file: "file" (a regular file the walk yields and metadata() reads),
\* "absent", "walkerr" (the walk's entry is an Err) or "staterr" (the walk
\* yields the regular file and metadata() on its path then fails: removed
\* after the listing, or not searchable).
FileA == <<"a">>
FileB == <<"s", "/", "b">>
Files == {FileA, FileB}
FileStates == {"file", "absent", "walkerr", "staterr"}
Size(f) == IF f = FileA THEN 10 ELSE 20

RECURSIVE SumSizes(_)
SumSizes(S) ==
    IF S = {} THEN 0
    ELSE LET f == CHOOSE x \in S : TRUE IN Size(f) + SumSizes(S \ {f})

\* WalkDir::new(path).into_iter().filter_map(entry.ok() and is_file()): the
\* regular files the walk yields; entries that are an Err are dropped.
Walked(tree) == {f \in Files : tree[f] \in {"file", "staterr"}}

\* count_bytes_recursive: file.metadata().unwrap().len() summed over the
\* walked files; the unwrap panics on the first metadata error.
count_bytes_recursive(tree) ==
    IF \E f \in Walked(tree) : tree[f] = "staterr"
    THEN [panic |-> TRUE, bytes |-> 0]
    ELSE [panic |-> FALSE, bytes |-> SumSizes(Walked(tree))]

\* Path::join, as the alternative that always inserts a separator.
PathJoinAlwaysSlash(base, rel) == base \o <<"/">> \o rel

\* Path::join(base, rel): an absolute rel replaces base; otherwise rel is
\* appended, after a '/' unless base is empty or already ends in one.
PathJoin(base, rel) ==
    IF rel # <<>> /\ rel[1] = "/" THEN rel
    ELSE IF base = <<>> \/ base[Len(base)] = "/" THEN base \o rel
    ELSE base \o <<"/">> \o rel

\* files_recursive(src_dir, key_prefix), of the s3_algo crate: for each walked
\* regular file, its path and key_prefix.join(path.strip_prefix(src_dir)).
\* main passes the key as PathBuf::from(&key), so the key is built by
\* Path::join.
files_recursive(tree, src_dir, key_prefix) ==
    {[path |-> PathJoin(src_dir, f), key |-> PathJoin(key_prefix, f)] :
        f \in Walked(tree)}

\* match (src, dest): the arm (Location::Path, Location::S3), as the
\* alternative that looks at dest alone.
CpSupportedDestOnly(s, d) == d.tag = "S3"

\* match (src, dest): the arm (Location::Path(path), Location::S3 {..}).
CpSupported(s, d) == s.tag = "Path" /\ d.tag = "S3"

\* match prefix, as the alternative that takes every Location.
RmSupportedAny(p) == TRUE

\* match prefix: the arm Location::S3 {..}.
RmSupported(p) == p.tag = "S3"

Panic(how) == exit' = how /\ pc' = "exited"

Init ==
    /\ argv \in [cmd : {"cp"}, a1 : Args, a2 : Args, region : Regions]
           \cup [cmd : {"rm"}, a1 : Args, a2 : {<<>>}, region : Regions]
           \cup [cmd : {""}, a1 : {<<>>}, a2 : {<<>>}, region : Regions]
    /\ fs \in [Files -> FileStates]
    /\ pc = "start"
    /\ src = NoLoc /\ dest = NoLoc /\ prefix = NoLoc
    /\ total_bytes = 0
    /\ events = <<>>
    /\ handed = {}
    /\ result = "none"
    /\ exit = "running"
    /\ ParseIdle /\ ProgIdle

\* cp: both arguments are parsed, then match (src, dest).
CpDispatch ==
    /\ pc = "start" /\ argv.cmd = "cp"
    /\ src' = LocationFrom(argv.a1)
    /\ dest' = LocationFrom(argv.a2)
    /\ IF CpSupported(src', dest')
       THEN pc' = "count" /\ UNCHANGED exit
       ELSE Panic("unimplemented")
    /\ UNCHANGED <<argv, fs, prefix, total_bytes, events, handed, result,
                   parseVars, progVars>>

\* let total_bytes = count_bytes_recursive(&path);
CountBytes ==
    /\ pc = "count"
    /\ events' = Append(events, "count_bytes_recursive")
    /\ LET r == count_bytes_recursive(fs)
       IN  IF r.panic
           THEN Panic("metadata_unwrap") /\ UNCHANGED total_bytes
           ELSE total_bytes' = r.bytes /\ pc' = "client" /\ UNCHANGED exit
    /\ UNCHANGED <<argv, fs, src, dest, prefix, handed, result,
                   parseVars, progVars>>

\* s3_client(profile, sse, region, host): unimplemented!() for a region other
\* than eu-west-1 and us-east-1; HttpClient::new() and ProfileProvider::new()
\* are unwrapped and may fail (ok = FALSE).
S3Client ==
    /\ pc = "client"
    /\ events' = Append(events, "s3_client")
    /\ \E ok \in BOOLEAN :
        IF argv.region \notin {"eu-west-1", "us-east-1"}
        THEN Panic("unimplemented")
        ELSE IF ~ok
        THEN Panic("client_unwrap")
        ELSE pc' = "call" /\ UNCHANGED exit
    /\ UNCHANGED <<argv, fs, src, dest, prefix, total_bytes, handed, result,
                   parseVars, progVars>>

\* s3_upload_files(s3, bucket, files_recursive(path, PathBuf::from(&key)), ..)
\* is called; the collaborator returns Ok or Err.
Upload ==
    /\ pc = "call" /\ argv.cmd = "cp"
    /\ events' = events \o <<"files_recursive", "s3_upload_files">>
    /\ handed' = files_recursive(fs, src.path, dest.key)
    /\ result' \in {"Ok", "Err"}
    /\ pc' = "await"
    /\ UNCHANGED <<argv, fs, src, dest, prefix, total_bytes, exit,
                   parseVars, progVars>>

\* .await.unwrap(), as the alternative that calls the collaborator again
\* after an Err.
UnwrapRetry ==
    /\ pc = "await"
    /\ IF result = "Ok"
       THEN exit' = "ok" /\ pc' = "exited"
       ELSE pc' = "call" /\ UNCHANGED exit
    /\ UNCHANGED <<argv, fs, src, dest, prefix, total_bytes, events, handed,
                   result,
                   parseVars, progVars>>

\* .await.unwrap() on the collaborator's result; main returns after it.
Unwrap ==
    /\ pc = "await"
    /\ IF result = "Ok"
       THEN exit' = "ok" /\ pc' = "exited"
       ELSE Panic("result_unwrap")
    /\ UNCHANGED <<argv, fs, src, dest, prefix, total_bytes, events, handed,
                   result,
                   parseVars, progVars>>

\* rm: the argument is parsed, then match prefix.
RmDispatch ==
    /\ pc = "start" /\ argv.cmd = "rm"
    /\ prefix' = LocationFrom(argv.a1)
    /\ IF RmSupported(prefix')
       THEN pc' = "client" /\ UNCHANGED exit
       ELSE Panic("prefix must be an S3 location")
    /\ UNCHANGED <<argv, fs, src, dest, total_bytes, events, handed, result,
                   parseVars, progVars>>

\* s3_list_prefix(s3, bucket, key).delete_all() is called; the collaborator
\* returns Ok or Err.
Delete ==
    /\ pc = "call" /\ argv.cmd = "rm"
    /\ events' = Append(events, "s3_list_prefix.delete_all")
    /\ result' \in {"Ok", "Err"}
    /\ pc' = "await"
    /\ UNCHANGED <<argv, fs, src, dest, prefix, total_bytes, handed, exit,
                   parseVars, progVars>>

\* Neither subcommand: the final else, unimplemented!().
NoSubcommand ==
    /\ pc = "start" /\ argv.cmd = ""
    /\ Panic("unimplemented")
    /\ UNCHANGED <<argv, fs, src, dest, prefix, total_bytes, events, handed,
                   result,
                   parseVars, progVars>>

Next ==
    \/ CpDispatch
    \/ CountBytes
    \/ S3Client
    \/ Upload
    \/ Unwrap
    \/ RmDispatch
    \/ Delete
    \/ NoSubcommand

Spec == Init /\ [][Next]_vars


(***************************************************************************)
(* Claims about main.                                                      *)
(***************************************************************************)
Collaborators == {"s3_upload_files", "s3_list_prefix.delete_all"}
Positions(e) == {i \in 1..Len(events) : events[i] = e}
Invocations == {i \in 1..Len(events) : events[i] \in Collaborators}

\* C4: in a cp run whose parsed (src, dest) is anything but (local, remote),
\* the process ends with the unimplemented failure, and no byte counting,
\* file enumeration, client construction or upload call has happened.
C4_UnsupportedDirection ==
    (argv.cmd = "cp" /\ pc # "start" /\ ~(src.tag = "Path" /\ dest.tag = "S3"))
        => /\ pc = "exited" /\ exit = "unimplemented"
           /\ events = <<>> /\ handed = {} /\ result = "none"

C4_Witness ==
    /\ argv.cmd = "cp" /\ pc = "exited" /\ exit = "unimplemented"
    /\ src.tag = "S3" /\ dest.tag = "Path"

\* C5: in an rm run whose prefix parses to a local path, the process ends
\* with the panic "`prefix` must be an S3 location" and nothing has been
\* done before it; the delete collaborator is called only for a remote
\* prefix.
C5_RmLocalPrefix ==
    /\ (argv.cmd = "rm" /\ pc # "start" /\ prefix.tag = "Path")
           => /\ pc = "exited" /\ exit = "prefix must be an S3 location"
              /\ events = <<>> /\ result = "none"
    /\ (Positions("s3_list_prefix.delete_all") # {} => prefix.tag = "S3")

C5_Witness ==
    /\ argv.cmd = "rm" /\ prefix = LocPath(ArgLocal)
    /\ exit = "prefix must be an S3 location"

\* The regular files under the root that are there to be read.
RegularFiles == {f \in Files : fs[f] = "file"}

\* C7, as claimed: the keys handed to the upload are, for every regular file
\* under the root, base_key, one '/' and the relative path, and the relative
\* path alone when base_key is empty.
C7_KeysAlwaysSeparated ==
    Positions("s3_upload_files") # {} =>
        {h.key : h \in handed} =
            {IF dest.key = <<>> THEN f ELSE dest.key \o <<"/">> \o f :
                f \in RegularFiles}

\* C7, amended: the relative path follows base_key directly when base_key is
\* empty or already ends in '/', and after one '/' otherwise.
C7_KeysJoined ==
    Positions("s3_upload_files") # {} =>
        {h.key : h \in handed} =
            {IF dest.key = <<>> \/ dest.key[Len(dest.key)] = "/"
                THEN dest.key \o f
                ELSE dest.key \o <<"/">> \o f :
                f \in RegularFiles}

\* cp d s3://b/p with a and s/b under d: the keys p/a and p/s/b.
C7_Witness ==
    /\ exit = "ok" /\ dest.key = <<"p">>
    /\ {h.key : h \in handed} = {<<"p", "/", "a">>, <<"p", "/", "s", "/", "b">>}

\* C9: count_bytes_recursive never aborts the process: it skips every entry
\* that fails in the walk or whose metadata cannot be read and returns the
\* sum of the sizes of the remaining regular files.
C9_CountIsBestEffort ==
    Positions("count_bytes_recursive") # {} =>
        /\ exit # "metadata_unwrap"
        /\ total_bytes = SumSizes(RegularFiles)

\* C10: the upload or delete collaborator is called at most once per run,
\* the byte count is taken before the upload call, a failure it reports ends
\* the process with a failure, and the process succeeds only after the one
\* call succeeded.
C10_NoRetry ==
    /\ Cardinality(Invocations) <= 1
    /\ \A i \in Positions("s3_upload_files") :
           \E j \in Positions("count_bytes_recursive") : j < i
    /\ (result = "Err" /\ pc = "exited" => exit = "result_unwrap")
    /\ (result = "Err" => exit \in {"running", "result_unwrap"})
    /\ (exit = "ok" => result = "Ok" /\ Cardinality(Invocations) = 1)

C10_Witness ==
    /\ argv.cmd = "cp" /\ result = "Err" /\ exit = "result_unwrap"
    /\ Cardinality(Invocations) = 1


(***************************************************************************)
(* The progress callback of the cp branch,                                 *)
(*     move |report| { let pb = pb.clone();                                *)
(*                     async move { pb.lock().await.add(report.bytes); } } *)
(* SpecProgress runs nrep callbacks, each reporting kbytes, in every       *)
(* interleaving the collaborator's task pool allows.  ProgressBar::add is  *)
(* `self.current += i; self.tick();`, and tick draws the bar on the        *)
(* terminal unless the refresh rate holds the drawing back.                *)
(***************************************************************************)
Callbacks == 1..nrep

\* Mutex::lock, as the alternative that never waits.
LockFreeAlways == TRUE

\* Mutex::lock().await resolves only while no guard is alive.
LockFree == holder = 0

InitProgress ==
    /\ nrep \in 1..NumReports
    /\ kbytes \in 0..MaxBytes
    /\ cpc = [i \in 1..nrep |-> "new"]
    /\ holder = 0
    /\ current = 0
    /\ reg = [i \in 1..nrep |-> 0]
    /\ ParseIdle /\ MainIdle

\* The collaborator calls the closure with a report: pb.clone(), and the
\* future is returned to be polled.
Report(i) ==
    /\ cpc[i] = "new"
    /\ cpc' = [cpc EXCEPT ![i] = "start"]
    /\ UNCHANGED <<nrep, kbytes, holder, current, reg, parseVars, mainVars>>

\* pb.lock().await: the callback is suspended until the mutex is free.
Lock(i) ==
    /\ cpc[i] = "start"
    /\ LockFree
    /\ holder' = i
    /\ cpc' = [cpc EXCEPT ![i] = "locked"]
    /\ UNCHANGED <<nrep, kbytes, current, reg, parseVars, mainVars>>

\* add: self.current += i, the read.
AddLoad(i) ==
    /\ cpc[i] = "locked"
    /\ reg' = [reg EXCEPT ![i] = current]
    /\ cpc' = [cpc EXCEPT ![i] = "loaded"]
    /\ UNCHANGED <<nrep, kbytes, holder, current, parseVars, mainVars>>

\* add: self.current += i, the write.
AddStore(i) ==
    /\ cpc[i] = "loaded"
    /\ current' = reg[i] + kbytes
    /\ cpc' = [cpc EXCEPT ![i] = "stored"]
    /\ UNCHANGED <<nrep, kbytes, holder, reg, parseVars, mainVars>>

\* add: self.tick(), which writes the bar to the terminal ("drawing") or,
\* inside the refresh interval, returns at once.
Tick(i) ==
    /\ cpc[i] = "stored"
    /\ \E draw \in BOOLEAN :
        cpc' = [cpc EXCEPT ![i] = IF draw THEN "drawing" ELSE "ticked"]
    /\ UNCHANGED <<nrep, kbytes, holder, current, reg, parseVars, mainVars>>

\* The write to the terminal returns.
Drawn(i) ==
    /\ cpc[i] = "drawing"
    /\ cpc' = [cpc EXCEPT ![i] = "ticked"]
    /\ UNCHANGED <<nrep, kbytes, holder, current, reg, parseVars, mainVars>>

\* The end of the statement drops the MutexGuard; the future completes.
Unlock(i) ==
    /\ cpc[i] = "ticked"
    /\ holder' = 0
    /\ cpc' = [cpc EXCEPT ![i] = "done"]
    /\ UNCHANGED <<nrep, kbytes, current, reg, parseVars, mainVars>>

NextProgress ==
    \/ \E i \in Callbacks : Report(i)
    \/ \E i \in Callbacks : Lock(i)
    \/ \E i \in Callbacks : AddLoad(i)
    \/ \E i \in Callbacks : AddStore(i)
    \/ \E i \in Callbacks : Tick(i)
    \/ \E i \in Callbacks : Drawn(i)
    \/ \E i \in Callbacks : Unlock(i)

SpecProgress == InitProgress /\ [][NextProgress]_vars

\* C6: once all N callbacks have completed, the bar's cumulative count is
\* N * k: no update is lost or counted twice.
C6_NoLostUpdate ==
    (\A i \in Callbacks : cpc[i] = "done") => current = nrep * kbytes

C6_Witness ==
    /\ nrep >= 2 /\ kbytes >= 1
    /\ \A i \in Callbacks : cpc[i] = "done"
    /\ current = nrep * kbytes

\* C8: the mutex is held only for the in-memory update of the counter: no
\* callback holds it while it writes to the terminal or while it is
\* suspended at the await.
C8_LockOnlyForCounterUpdate ==
    \A i \in Callbacks :
        holder = i => cpc[i] \in {"locked", "loaded", "stored", "ticked"}


=============================================================================
